---- MODULE Spec2Model ----
(***************************************************************************)
(* Session / credential lifecycle of creatio-api-py: the authentication    *)
(* manager (api/auth.py), the session cache (api/sessions.py) and the      *)
(* request executor (api/request_handler.py), as one sequential program    *)
(* with an explicit call stack.  The remote service is the environment:    *)
(* every HTTP exchange draws its response from a small set.                *)
(***************************************************************************)
EXTENDS Integers, Sequences, FiniteSets, TLC

\* ------------------------------------------------------------------ bounds
MaxOps == 2          \* top-level calls made on the instance
MaxExchanges == 3    \* HTTP exchanges within one top-level call

\* ------------------------------------------------------------- vocabulary
Empty == ""          \* a falsy credential: None or the empty string
Nil == "<none>"      \* a key that a dict does not hold

Credentials(u, p, ci, cs) ==
  [username |-> u, password |-> p, client_id |-> ci, client_secret |-> cs]
NoArgs == Credentials(Empty, Empty, Empty, Empty)

\* the arguments a caller passes to authenticate
ArgChoices ==
  { NoArgs,
    Credentials("alice", "pw", Empty, Empty),
    Credentials("bob", "pw", Empty, Empty),
    Credentials("alice", Empty, Empty, Empty),
    Credentials(Empty, Empty, "cid", "secret"),
    Credentials(Empty, Empty, "cid", Empty),
    Credentials("alice", "pw", "cid", "secret") }

\* os.getenv(...) of the four CREATIO_* variables, fixed for a process
Environments ==
  { NoArgs,
    Credentials("env_user", "env_pw", Empty, Empty),
    Credentials("env_user", Empty, Empty, Empty),
    Credentials(Empty, Empty, "env_cid", "env_secret") }

BaseUrl == "https://x.creatio.com/"      \* str(api_instance.base_url)
OtherUrl == "https://y.creatio.com/"     \* another tenant sharing the sessions file
Urls == {BaseUrl, OtherUrl}
LoginEndpoint == "ServiceModel/AuthService.svc/Login"
ProbeEndpoint == "0/odata/Account/$count"
AuthorizeEndpoint == "0/connect/authorize"
TokenEndpoint == "0/connect/token"
Collections == {"Case"}

\* Python's `sub in s` on str
Contains(s, sub) ==
  \E i \in 1..(Len(s) - Len(sub) + 1) : SubSeq(s, i, i + Len(sub) - 1) = sub

\* dict keys of a cookie jar / a stored payload, and of a header dict
Keys == {"BPMCSRF", ".ASPXAUTH", "access_token"}
HeaderNames == {"Authorization", "BPMCSRF", "ForceUseSession", "Accept"}
EmptyDict == [k \in Keys |-> Nil]
EmptyHeaders == [h \in HeaderNames |-> Nil]

\* dict.update: the keys of d2 override those of d1
Update(d1, d2) == [k \in DOMAIN d1 |-> IF d2[k] # Nil THEN d2[k] ELSE d1[k]]
Truthy(d) == \E k \in DOMAIN d : d[k] # Nil

Principals == {Empty, "alice", "bob", "env_user", "cid", "env_cid"}
NoEntry == [present |-> FALSE, payload |-> EmptyDict]
Entry(d) == [present |-> TRUE, payload |-> d]

\* cookies a response may set
FreshCookies == [EmptyDict EXCEPT !["BPMCSRF"] = "csrf2", ![".ASPXAUTH"] = "auth2"]
CachedCookies == [EmptyDict EXCEPT !["BPMCSRF"] = "csrf1", ![".ASPXAUTH"] = "auth1"]
CachedToken == [EmptyDict EXCEPT !["access_token"] = "tok1"]

OkStatus == 200
ErrorStatuses == {401, 500}
\* Response.raise_for_status raises HTTPError for 400 <= status < 600
IsHttpError(status) == status >= 400 /\ status < 600

HttpResponse(status, cookies, history, exception) ==
  [kind |-> "http", status |-> status, cookies |-> cookies, history |-> history,
   exception |-> exception]
TransportError(kind) ==
  [kind |-> kind, status |-> 0, cookies |-> EmptyDict, history |-> FALSE, exception |-> FALSE]

\* what the remote service (or the transport) answers to one request
Responses(endpoint) ==
  CASE endpoint = ProbeEndpoint ->
         { HttpResponse(OkStatus, EmptyDict, FALSE, FALSE),
           HttpResponse(OkStatus, EmptyDict, TRUE, FALSE),     \* redirected to the login page
           HttpResponse(401, EmptyDict, FALSE, FALSE),
           TransportError("TooManyRedirects") }
    [] endpoint = LoginEndpoint ->
         { HttpResponse(OkStatus, FreshCookies, FALSE, FALSE),
           HttpResponse(OkStatus, EmptyDict, FALSE, TRUE),     \* 200 with an Exception body
           HttpResponse(401, EmptyDict, FALSE, FALSE),
           TransportError("ConnectionError") }
    [] endpoint \in {AuthorizeEndpoint, TokenEndpoint} ->
         { HttpResponse(OkStatus, EmptyDict, FALSE, FALSE),
           HttpResponse(401, EmptyDict, FALSE, FALSE) }
    [] OTHER ->
         { HttpResponse(OkStatus, c, FALSE, FALSE) : c \in {EmptyDict, FreshCookies} }
         \cup { HttpResponse(st, EmptyDict, FALSE, FALSE) : st \in ErrorStatuses }
         \cup { TransportError("ConnectionError") }

\* requests.models.Response(): status_code is None
SyntheticResponse ==
  [kind |-> "synthetic", status |-> 0, cookies |-> EmptyDict, history |-> FALSE, exception |-> FALSE]
NoResponse ==
  [kind |-> "none", status |-> 0, cookies |-> EmptyDict, history |-> FALSE, exception |-> FALSE]

\* ------------------------------------------------------------------ state
VARIABLES
  username, password, client_id, client_secret,  \* in-memory credentials
  oauth_token,                                   \* bearer token, Empty if none
  jar,                                           \* session.cookies
  api_calls,                                     \* call counter
  store,                                         \* what the sessions file holds: url -> principal -> payload
  disk,                                          \* whether the sessions file can be read and written
  env,                                           \* process environment
  writers,                                       \* processes running store_session on the sessions file
  query,                                         \* one get_collection_data call: its arguments and its request
  stack,                                         \* call stack, innermost frame last
  ret,                                           \* value or exception travelling to the caller
  sent,                                          \* requests issued by the current top-level call
  alive,                                         \* FALSE once exit(1) ended the process
  ops,                                           \* top-level calls made so far
  op,                                            \* the current (or last) top-level call
  last,                                          \* the make_request call that finished last
  lastAuth                                       \* the authenticate call that dispatched last

vars == <<username, password, client_id, client_secret, oauth_token, jar, api_calls,
          store, disk, env, writers, query, stack, ret, sent, alive, ops, op, last, lastAuth>>

inst == <<username, password, client_id, client_secret, oauth_token>>

NoReturn == [kind |-> "none", type |-> "", message |-> "", status |-> 0, response |-> NoResponse]
ReturnValue(r) ==
  [kind |-> "value", type |-> "Response", message |-> "", status |-> r.status, response |-> r]
Raise(type, message, status) ==
  [kind |-> "exc", type |-> type, message |-> message, status |-> status, response |-> NoResponse]

ConflictMessage == "Cannot use both oauth credentials and username/password for authentication."
MissingMessage == "No credentials provided for authentication"
InvalidMethodMessage == "Invalid authentication method. Provide either username/password or client_id/client_secret."
ServerMessage == "Authentication error"   \* response_json["Exception"]["Message"]
EmptyTokenMessage == "OAuth token cannot be empty"

NoBody == [kind |-> "none", a |-> "", b |-> ""]

\* One stack frame.  kind "req" is a make_request call, kind "auth" an
\* authenticate call (with the _session_/_oauth_authentication it runs).
Frame(kind, pc) ==
  [kind |-> kind, pc |-> pc,
   method |-> "", endpoint |-> "", body |-> NoBody, headers |-> EmptyHeaders,
   response |-> NoResponse, first |-> 0, sends |-> 0, auths |-> 0, entry_calls |-> 0,
   args |-> NoArgs, resolved |-> NoArgs, memory |-> NoArgs, cache |-> FALSE,
   track |-> "", entry_sent |-> 0]

NoOp == [name |-> "none", args |-> NoArgs, cache |-> FALSE, entry_calls |-> 0]
NoLast == [how |-> "none", endpoint |-> "", first |-> 0, final |-> 0, sends |-> 0, auths |-> 0,
           entry_calls |-> 0, exit_calls |-> 0, entry_sent |-> 0, sent_len |-> 0, depth |-> 0]
NoLastAuth == [how |-> "none", args |-> NoArgs, resolved |-> NoArgs, memory |-> NoArgs,
               cache |-> FALSE, entry_sent |-> 0, exit_sent |-> 0, depth |-> 0]

Top == stack[Len(stack)]
Depth == Len(stack)
Pop == SubSeq(stack, 1, Len(stack) - 1)
Push(f) == Append(stack, f)
ReplaceTop(f) == [stack EXCEPT ![Len(stack)] = f]
Running == alive /\ Depth > 0
AtTop(kind, pc) == Running /\ Top.kind = kind /\ Top.pc = pc

EmptyStore == [u \in Urls |-> [p \in Principals |-> NoEntry]]
InitialStores ==
  { EmptyStore,
    [EmptyStore EXCEPT ![BaseUrl]["alice"] = Entry(CachedCookies),
                       ![OtherUrl]["bob"] = Entry(CachedCookies)],
    [EmptyStore EXCEPT ![BaseUrl]["cid"] = Entry(CachedToken)] }

\* the sessions file when the instance is created: not there yet, holding a store,
\* holding bytes that do not decrypt, or with no encryption key to read or write it
DiskStates == {"missing", "ok", "corrupt", "nokey"}
InitialFiles ==
  { <<IF sessions = EmptyStore THEN "missing" ELSE "ok", sessions>> :
      sessions \in InitialStores }
  \cup { <<d, [EmptyStore EXCEPT ![BaseUrl]["alice"] = Entry(CachedCookies),
                               ![OtherUrl]["bob"] = Entry(CachedCookies)]>> :
           d \in {"corrupt", "nokey"} }

\* no other process works on the sessions file
NoWriters == <<>>
\* no get_collection_data call is being put together
NoQuery == [pc |-> "none"]

Init ==
  /\ username = Empty /\ password = Empty
  /\ client_id = Empty /\ client_secret = Empty
  /\ oauth_token = Empty
  /\ jar = EmptyDict
  /\ api_calls = 0
  /\ \E f \in InitialFiles :
       /\ disk = f[1] /\ store = f[2]
       /\ env \in (IF f[1] \in {"corrupt", "nokey"} THEN {NoArgs} ELSE Environments)
  /\ stack = <<>>
  /\ ret = NoReturn
  /\ sent = <<>>
  /\ alive = TRUE
  /\ ops = 0
  /\ op = NoOp
  /\ last = NoLast
  /\ lastAuth = NoLastAuth
  /\ writers = NoWriters
  /\ query = NoQuery

\* --------------------------------------------------------- sessions file
\* mutant: whatever the file holds is handed back without the checks
_read_encrypted_sessions_unchecked == store

\* _read_encrypted_sessions: {} when the file does not exist, or when reading or
\* decrypting it raises
_read_encrypted_sessions == IF disk = "ok" THEN store ELSE EmptyStore

\* EncryptedCookieManager.encrypt raises when no key is configured
encrypt_raises == disk = "nokey"

\* _update_session_file: encrypt and write the whole store; an exception of either
\* step is logged and the call returns
_update_session_file(sessions_data) ==
  IF encrypt_raises
  THEN UNCHANGED <<store, disk>>
  ELSE store' = sessions_data /\ disk' = "ok"

\* ------------------------------------------------------- request executor
\* mutant: the session headers are set whether or not a token is active
_build_headers_session_always(token, cookies, endpoint) ==
  [h \in HeaderNames |->
     CASE h = "Authorization" -> IF token # Empty THEN "Bearer " \o token ELSE Nil
       [] h = "BPMCSRF" -> cookies["BPMCSRF"]
       [] h = "ForceUseSession" -> "true"
       [] h = "Accept" -> IF ~Contains(endpoint, "$metadata")
                          THEN "application/json; odata=verbose" ELSE Nil]

\* _build_headers: the headers the current credential state asks for
_build_headers(token, cookies, endpoint) ==
  [h \in HeaderNames |->
     CASE h = "Authorization" -> IF token # Empty THEN "Bearer " \o token ELSE Nil
       [] h = "BPMCSRF" -> IF token = Empty THEN cookies["BPMCSRF"] ELSE Nil
       [] h = "ForceUseSession" -> IF token = Empty THEN "true" ELSE Nil
       [] h = "Accept" -> IF ~Contains(endpoint, "$metadata")
                          THEN "application/json; odata=verbose" ELSE Nil]

\* make_request, lines 54-57: the frame of a new call, ready for its first attempt
NewRequest(method, endpoint, body, token, cookies, calls, issued) ==
  [Frame("req", "first") EXCEPT
     !.method = method, !.endpoint = endpoint, !.body = body,
     !.headers = Update(EmptyHeaders, _build_headers(token, cookies, endpoint)),
     !.entry_calls = calls, !.entry_sent = issued]

\* authenticate(...) entered with these arguments
NewAuthenticate(args, cache, issued) ==
  [Frame("auth", "enter") EXCEPT
     !.args = args, !.cache = cache, !.entry_sent = issued, !.entry_calls = api_calls,
     !.memory = Credentials(username, password, client_id, client_secret)]

BeginOp(name, args, cache) ==
  /\ alive /\ stack = <<>> /\ ops < MaxOps
  /\ ops' = ops + 1
  /\ op' = [name |-> name, args |-> args, cache |-> cache, entry_calls |-> api_calls]
  /\ ret' = NoReturn
  /\ sent' = <<>>
  /\ last' = NoLast
  /\ lastAuth' = NoLastAuth

\* CollectionOperationsMixin.get_collection_data(collection)
get_collection_data ==
  \E c \in Collections :
    /\ BeginOp("get_collection_data", NoArgs, FALSE)
    /\ stack' = <<NewRequest("GET", "0/odata/" \o c, NoBody, oauth_token, jar, api_calls, 0)>>
    /\ UNCHANGED <<inst, jar, api_calls, store, disk, env, writers, query, alive>>

\* CollectionOperationsMixin.add_collection_data(collection, data)
add_collection_data ==
  \E c \in Collections :
    /\ BeginOp("add_collection_data", NoArgs, FALSE)
    /\ stack' = <<NewRequest("POST", "0/odata/" \o c, [kind |-> "json", a |-> "data", b |-> ""],
                             oauth_token, jar, api_calls, 0)>>
    /\ UNCHANGED <<inst, jar, api_calls, store, disk, env, writers, query, alive>>

\* AuthenticationMixin.authenticate(username, password, client_id, client_secret, cache)
authenticate ==
  \E args \in ArgChoices, cache \in BOOLEAN :
    /\ BeginOp("authenticate", args, cache)
    /\ stack' = <<NewAuthenticate(args, cache, 0)>>
    /\ UNCHANGED <<inst, jar, api_calls, store, disk, env, writers, query, alive>>

\* mutant: the retry runs inside the try block too, so a failed retry starts over
AfterResponse_RetryLoop(pc, status) ==
  IF IsHttpError(status) THEN "except" ELSE "finish"

\* make_request, lines 59-70: only the first attempt runs inside the try block
AfterResponse(pc, status) ==
  IF pc = "first" /\ IsHttpError(status) THEN "except" ELSE "finish"

SentEntry(f, r) ==
  [method |-> f.method, endpoint |-> f.endpoint, body |-> f.body, headers |-> f.headers,
   depth |-> Depth, attempt |-> f.sends + 1, kind |-> r.kind, status |-> r.status,
   history |-> r.history, jar |-> jar]

\* mutant: the handler of the first attempt catches transport errors too
session_request_catches_transport ==
  /\ Running /\ Top.kind = "req" /\ Top.pc \in {"first", "retry"}
  /\ Len(sent) < MaxExchanges
  /\ \E r \in Responses(Top.endpoint) :
       /\ sent' = Append(sent, SentEntry(Top, r))
       /\ IF r.kind = "http"
          THEN /\ jar' = Update(jar, r.cookies)
               /\ ret' = NoReturn
               /\ stack' = ReplaceTop(
                    [Top EXCEPT !.response = r, !.sends = @ + 1,
                                !.first = IF Top.pc = "first" THEN r.status ELSE @,
                                !.pc = AfterResponse(Top.pc, r.status)])
          ELSE IF Top.pc = "first" /\ r.kind = "ConnectionError"
          THEN /\ jar' = jar
               /\ ret' = NoReturn
               /\ stack' = ReplaceTop([Top EXCEPT !.sends = @ + 1, !.pc = "except"])
          ELSE /\ jar' = jar
               /\ ret' = Raise(r.kind, "", 0)
               /\ stack' = Pop
  /\ UNCHANGED <<inst, api_calls, store, disk, env, writers, query, alive, ops, op, last, lastAuth>>

\* mutant: the cookies of a response do not reach the jar of the session
session_request_drops_cookies ==
  /\ Running /\ Top.kind = "req" /\ Top.pc \in {"first", "retry"}
  /\ Len(sent) < MaxExchanges
  /\ \E r \in Responses(Top.endpoint) :
       /\ sent' = Append(sent, SentEntry(Top, r))
       /\ jar' = jar
       /\ IF r.kind = "http"
          THEN /\ ret' = NoReturn
               /\ stack' = ReplaceTop(
                    [Top EXCEPT !.response = r, !.sends = @ + 1,
                                !.first = IF Top.pc = "first" THEN r.status ELSE @,
                                !.pc = AfterResponse(Top.pc, r.status)])
          ELSE /\ ret' = Raise(r.kind, "", 0)
               /\ stack' = Pop
  /\ UNCHANGED <<inst, api_calls, store, disk, env, writers, query, alive, ops, op, last, lastAuth>>

\* make_request, lines 60-63 and 70: api_instance.session.request(...) of the first
\* attempt or of the retry.  The session stores the cookies of the response in its jar.
session_request ==
  /\ Running /\ Top.kind = "req" /\ Top.pc \in {"first", "retry"}
  /\ Len(sent) < MaxExchanges
  /\ \E r \in Responses(Top.endpoint) :
       /\ sent' = Append(sent, SentEntry(Top, r))
       /\ IF r.kind = "http"
          THEN /\ jar' = Update(jar, r.cookies)
               /\ ret' = NoReturn
               /\ stack' = ReplaceTop(
                    [Top EXCEPT !.response = r, !.sends = @ + 1,
                                !.first = IF Top.pc = "first" THEN r.status ELSE @,
                                !.pc = AfterResponse(Top.pc, r.status)])
          ELSE /\ jar' = jar
               /\ ret' = Raise(r.kind, "", 0)
               /\ stack' = Pop
  /\ UNCHANGED <<inst, api_calls, store, disk, env, writers, query, alive, ops, op, last, lastAuth>>

\* mutant: the handler calls authenticate() with its default cache=True
make_request_except_cached ==
  /\ AtTop("req", "except")
  /\ stack' = Append(ReplaceTop([Top EXCEPT !.pc = "reauth", !.auths = @ + 1]),
                     NewAuthenticate(NoArgs, TRUE, Len(sent)))
  /\ UNCHANGED <<inst, jar, api_calls, store, disk, env, writers, query, ret, sent, alive, ops, op, last, lastAuth>>

\* make_request, lines 64-67: the except HTTPError handler calls authenticate(cache=False)
make_request_except ==
  /\ AtTop("req", "except")
  /\ stack' = Append(ReplaceTop([Top EXCEPT !.pc = "reauth", !.auths = @ + 1]),
                     NewAuthenticate(NoArgs, FALSE, Len(sent)))
  /\ UNCHANGED <<inst, jar, api_calls, store, disk, env, writers, query, ret, sent, alive, ops, op, last, lastAuth>>

\* make_request, lines 69-70: authenticate returned; rebuild the headers and retry
make_request_retry ==
  /\ AtTop("req", "reauth") /\ ret.kind = "value"
  /\ stack' = ReplaceTop(
       [Top EXCEPT !.pc = "retry",
                   !.headers = Update(@, _build_headers(oauth_token, jar, Top.endpoint))])
  /\ ret' = NoReturn
  /\ UNCHANGED <<inst, jar, api_calls, store, disk, env, writers, query, sent, alive, ops, op, last, lastAuth>>

\* CreatioODataAPI.store_session_cookie(username): all_cookies[url][username] = session_cookies
store_session_cookie(sessions, name, cookies) ==
  [sessions EXCEPT ![BaseUrl][name] = Entry(cookies)]

LastOf(f, how, calls) ==
  [how |-> how, endpoint |-> f.endpoint, first |-> f.first, final |-> f.response.status,
   sends |-> f.sends, auths |-> f.auths, entry_calls |-> f.entry_calls, exit_calls |-> calls,
   entry_sent |-> f.entry_sent, sent_len |-> Len(sent), depth |-> Depth]

\* mutant: a call that needed its retry is not counted
make_request_finish_skips_retried ==
  /\ AtTop("req", "finish")
  /\ LET r == Top.response IN
     IF IsHttpError(r.status)
     THEN /\ ret' = Raise("HTTPError", "", r.status)
          /\ last' = LastOf(Top, "raised", api_calls)
          /\ UNCHANGED <<jar, store, disk, api_calls>>
     ELSE /\ IF Truthy(r.cookies) /\ Top.endpoint # LoginEndpoint
             THEN /\ jar' = Update(jar, r.cookies)
                  /\ _update_session_file(
                       store_session_cookie(_read_encrypted_sessions, username,
                                            Update(jar, r.cookies)))
             ELSE UNCHANGED <<jar, store, disk>>
          /\ api_calls' = (IF Top.sends = 1 THEN api_calls + 1 ELSE api_calls)
          /\ ret' = ReturnValue(r)
          /\ last' = LastOf(Top, "returned", api_calls')
  /\ stack' = Pop
  /\ UNCHANGED <<inst, env, writers, query, sent, alive, ops, op, lastAuth>>

\* mutant: the call is counted before the final status is checked
make_request_finish_counts_first ==
  /\ AtTop("req", "finish")
  /\ LET r == Top.response IN
     /\ api_calls' = api_calls + 1
     /\ IF IsHttpError(r.status)
        THEN /\ ret' = Raise("HTTPError", "", r.status)
             /\ last' = LastOf(Top, "raised", api_calls + 1)
             /\ UNCHANGED <<jar, store, disk>>
        ELSE /\ IF Truthy(r.cookies) /\ Top.endpoint # LoginEndpoint
                THEN /\ jar' = Update(jar, r.cookies)
                     /\ _update_session_file(
                          store_session_cookie(_read_encrypted_sessions, username,
                                               Update(jar, r.cookies)))
                ELSE UNCHANGED <<jar, store, disk>>
             /\ ret' = ReturnValue(r)
             /\ last' = LastOf(Top, "returned", api_calls + 1)
  /\ stack' = Pop
  /\ UNCHANGED <<inst, env, writers, query, sent, alive, ops, op, lastAuth>>

\* make_request, lines 72-85: raise for the final status, persist new cookies, count the call
make_request_finish ==
  /\ AtTop("req", "finish")
  /\ LET r == Top.response IN
     IF IsHttpError(r.status)
     THEN /\ ret' = Raise("HTTPError", "", r.status)
          /\ last' = LastOf(Top, "raised", api_calls)
          /\ UNCHANGED <<jar, store, disk, api_calls>>
     ELSE /\ IF Truthy(r.cookies) /\ Top.endpoint # LoginEndpoint
             THEN /\ jar' = Update(jar, r.cookies)
                  /\ _update_session_file(
                       store_session_cookie(_read_encrypted_sessions, username,
                                            Update(jar, r.cookies)))
             ELSE UNCHANGED <<jar, store, disk>>
          /\ api_calls' = api_calls + 1
          /\ ret' = ReturnValue(r)
          /\ last' = LastOf(Top, "returned", api_calls + 1)
  /\ stack' = Pop
  /\ UNCHANGED <<inst, env, writers, query, sent, alive, ops, op, lastAuth>>

\* -------------------------------------------------- authentication manager
\* mutant: the instance's field wins over the environment
Resolve_MemoryFirst(arg, environ, memory) ==
  IF arg # Empty THEN arg ELSE IF memory # Empty THEN memory ELSE environ

\* mutant: the instance's fields take no part in the resolution
Resolve_NoMemory(arg, environ, memory) ==
  IF arg # Empty THEN arg ELSE environ

\* `a or b or c` over one credential field
Resolve(arg, environ, memory) ==
  IF arg # Empty THEN arg ELSE IF environ # Empty THEN environ ELSE memory

\* mutant: no conflict check, OAuth wins when both pairs are complete
Dispatch_PrefersOAuth(r) ==
  IF r.username = Empty /\ r.password = Empty
     /\ r.client_id = Empty /\ r.client_secret = Empty
  THEN "missing"
  ELSE IF r.client_id # Empty /\ r.client_secret # Empty THEN "oauth"
  ELSE IF r.username # Empty /\ r.password # Empty THEN "session"
  ELSE "invalid"

\* mutant: a username alone is taken for session credentials
Dispatch_PartialSession(r) ==
  IF r.client_id # Empty /\ r.client_secret # Empty /\ r.username # Empty /\ r.password # Empty
  THEN "conflict"
  ELSE IF r.username = Empty /\ r.password = Empty
          /\ r.client_id = Empty /\ r.client_secret = Empty
  THEN "missing"
  ELSE IF r.client_id # Empty /\ r.client_secret # Empty THEN "oauth"
  ELSE IF r.username # Empty \/ r.password # Empty THEN "session"
  ELSE "invalid"

\* authenticate, lines 196-223: which way the resolved credentials send the call
Dispatch(r) ==
  IF r.client_id # Empty /\ r.client_secret # Empty /\ r.username # Empty /\ r.password # Empty
  THEN "conflict"
  ELSE IF r.username = Empty /\ r.password = Empty
          /\ r.client_id = Empty /\ r.client_secret = Empty
  THEN "missing"
  ELSE IF r.client_id # Empty /\ r.client_secret # Empty THEN "oauth"
  ELSE IF r.username # Empty /\ r.password # Empty THEN "session"
  ELSE "invalid"

DispatchMessage(how) ==
  CASE how = "conflict" -> ConflictMessage
    [] how = "missing" -> MissingMessage
    [] OTHER -> InvalidMethodMessage

LastAuthOf(f, resolved, how) ==
  [how |-> how, args |-> f.args, resolved |-> resolved, memory |-> f.memory,
   cache |-> f.cache, entry_sent |-> f.entry_sent, exit_sent |-> Len(sent), depth |-> Depth]

\* mutant: the resolved credentials are assigned to the instance before they are validated
authenticate_dispatch_assigns_first ==
  /\ AtTop("auth", "enter")
  /\ LET resolved ==
           Credentials(Resolve(Top.args.username, env.username, username),
                       Resolve(Top.args.password, env.password, password),
                       Resolve(Top.args.client_id, env.client_id, client_id),
                       Resolve(Top.args.client_secret, env.client_secret, client_secret))
         how == Dispatch(resolved)
     IN
     /\ lastAuth' = LastAuthOf(Top, resolved, how)
     /\ username' = resolved.username
     /\ password' = resolved.password
     /\ client_id' = resolved.client_id
     /\ client_secret' = resolved.client_secret
     /\ IF how \in {"oauth", "session"}
        THEN /\ stack' = ReplaceTop([Top EXCEPT !.pc = how, !.track = how,
                                                !.resolved = resolved])
             /\ ret' = ret
        ELSE /\ stack' = Pop
             /\ ret' = Raise("ValueError", DispatchMessage(how), 0)
  /\ UNCHANGED <<oauth_token, jar, api_calls, store, disk, env, writers, query, sent, alive, ops, op, last>>

\* authenticate, lines 189-223: resolve the four credentials, then raise or enter a track
authenticate_dispatch ==
  /\ AtTop("auth", "enter")
  /\ LET resolved ==
           Credentials(Resolve(Top.args.username, env.username, username),
                       Resolve(Top.args.password, env.password, password),
                       Resolve(Top.args.client_id, env.client_id, client_id),
                       Resolve(Top.args.client_secret, env.client_secret, client_secret))
         how == Dispatch(resolved)
     IN
     /\ lastAuth' = LastAuthOf(Top, resolved, how)
     /\ IF how \in {"oauth", "session"}
        THEN /\ stack' = ReplaceTop([Top EXCEPT !.pc = how, !.track = how,
                                                !.resolved = resolved])
             /\ ret' = ret
        ELSE /\ stack' = Pop
             /\ ret' = Raise("ValueError", DispatchMessage(how), 0)
  /\ UNCHANGED <<inst, jar, api_calls, store, disk, env, writers, query, sent, alive, ops, op, last>>

\* load_session, lines 73-75: is there a stored session for (base_url, name)?
Cached(sessions, name) == sessions[BaseUrl][name].present

LoginBody(u, p) == [kind |-> "json", a |-> u, b |-> p]
ProbeRequest(token, cookies) ==
  NewRequest("GET", ProbeEndpoint, NoBody, token, cookies, api_calls, Len(sent))

\* mutant: the cache flag is ignored and a stored session is always loaded
_session_authentication_ignores_flag ==
  /\ AtTop("auth", "session")
  /\ username' = Top.resolved.username
  /\ password' = Top.resolved.password
  /\ IF Cached(_read_encrypted_sessions, Top.resolved.username)
     THEN LET cookies ==
                Update(jar, _read_encrypted_sessions[BaseUrl][Top.resolved.username].payload) IN
          /\ jar' = cookies
          /\ stack' = Append(ReplaceTop([Top EXCEPT !.pc = "probe"]),
                             ProbeRequest(oauth_token, cookies))
     ELSE /\ jar' = EmptyDict
          /\ stack' = Append(ReplaceTop([Top EXCEPT !.pc = "login"]),
                             NewRequest("POST", LoginEndpoint,
                                        LoginBody(Top.resolved.username, Top.resolved.password),
                                        oauth_token, EmptyDict, api_calls, Len(sent)))
  /\ UNCHANGED <<client_id, client_secret, oauth_token, api_calls, store, disk, env, writers, query, ret, sent,
                 alive, ops, op, last, lastAuth>>

\* _session_authentication, lines 126-142, with load_session lines 72-87: install the
\* cached cookies and probe them, or clear the jar and post the credentials
_session_authentication ==
  /\ AtTop("auth", "session")
  /\ username' = Top.resolved.username
  /\ password' = Top.resolved.password
  /\ IF Top.cache /\ Cached(_read_encrypted_sessions, Top.resolved.username)
     THEN LET cookies ==
                Update(jar, _read_encrypted_sessions[BaseUrl][Top.resolved.username].payload) IN
          /\ jar' = cookies
          /\ stack' = Append(ReplaceTop([Top EXCEPT !.pc = "probe"]),
                             ProbeRequest(oauth_token, cookies))
     ELSE /\ jar' = EmptyDict
          /\ stack' = Append(ReplaceTop([Top EXCEPT !.pc = "login"]),
                             NewRequest("POST", LoginEndpoint,
                                        LoginBody(Top.resolved.username, Top.resolved.password),
                                        oauth_token, EmptyDict, api_calls, Len(sent)))
  /\ UNCHANGED <<client_id, client_secret, oauth_token, api_calls, store, disk, env, writers, query, ret, sent,
                 alive, ops, op, last, lastAuth>>

\* mutant: the result of the probe is ignored and a live login always follows
session_probe_done_always_login ==
  /\ AtTop("auth", "probe") /\ Top.track = "session"
  /\ \/ ret.kind = "value"
     \/ ret.kind = "exc" /\ ret.type = "TooManyRedirects"
  /\ ret' = NoReturn
  /\ jar' = EmptyDict
  /\ stack' = Append(ReplaceTop([Top EXCEPT !.pc = "login"]),
                     NewRequest("POST", LoginEndpoint,
                                LoginBody(Top.resolved.username, Top.resolved.password),
                                oauth_token, EmptyDict, api_calls, Len(sent)))
  /\ UNCHANGED <<inst, api_calls, store, disk, env, writers, query, sent, alive, ops, op, last, lastAuth>>

\* mutant: the jar is not cleared before the live login
session_probe_done_keeps_jar ==
  /\ AtTop("auth", "probe") /\ Top.track = "session"
  /\ \/ ret.kind = "value"
     \/ ret.kind = "exc" /\ ret.type = "TooManyRedirects"
  /\ IF ret.kind = "value" /\ ~ret.response.history
     THEN /\ ret' = ReturnValue(SyntheticResponse)
          /\ stack' = Pop
          /\ jar' = jar
     ELSE /\ ret' = NoReturn
          /\ jar' = jar
          /\ stack' = Append(ReplaceTop([Top EXCEPT !.pc = "login"]),
                             NewRequest("POST", LoginEndpoint,
                                        LoginBody(Top.resolved.username, Top.resolved.password),
                                        oauth_token, jar, api_calls, Len(sent)))
  /\ UNCHANGED <<inst, api_calls, store, disk, env, writers, query, sent, alive, ops, op, last, lastAuth>>

\* load_session, lines 88-92, and what _session_authentication does with its result
\* (lines 127-142)
session_probe_done ==
  /\ AtTop("auth", "probe") /\ Top.track = "session"
  /\ \/ ret.kind = "value"
     \/ ret.kind = "exc" /\ ret.type = "TooManyRedirects"
  /\ IF ret.kind = "value" /\ ~ret.response.history
     THEN /\ ret' = ReturnValue(SyntheticResponse)
          /\ stack' = Pop
          /\ jar' = jar
     ELSE /\ ret' = NoReturn
          /\ jar' = EmptyDict
          /\ stack' = Append(ReplaceTop([Top EXCEPT !.pc = "login"]),
                             NewRequest("POST", LoginEndpoint,
                                        LoginBody(Top.resolved.username, Top.resolved.password),
                                        oauth_token, EmptyDict, api_calls, Len(sent)))
  /\ UNCHANGED <<inst, api_calls, store, disk, env, writers, query, sent, alive, ops, op, last, lastAuth>>

\* mutant: the entry is put into a fresh mapping, not into the store that was read
store_session_fresh_mapping(sessions, name, user, client, cookies, token) ==
  IF user # Empty THEN [EmptyStore EXCEPT ![BaseUrl][name] = Entry(cookies)]
  ELSE IF client # Empty
       THEN [EmptyStore EXCEPT ![BaseUrl][name] =
                                 Entry([EmptyDict EXCEPT !["access_token"] = token])]
       ELSE sessions

\* mutant: the mapping of the url is replaced instead of one entry of it
store_session_replaces_url(sessions, name, user, client, cookies, token) ==
  IF user # Empty
  THEN [sessions EXCEPT ![BaseUrl] = [EmptyStore[BaseUrl] EXCEPT ![name] = Entry(cookies)]]
  ELSE IF client # Empty
       THEN [sessions EXCEPT ![BaseUrl] =
               [EmptyStore[BaseUrl] EXCEPT
                  ![name] = Entry([EmptyDict EXCEPT !["access_token"] = token])]]
       ELSE sessions

\* store_session: read the whole store, set one entry, write the whole store
store_session(sessions, name, user, client, cookies, token) ==
  IF user # Empty THEN [sessions EXCEPT ![BaseUrl][name] = Entry(cookies)]
  ELSE IF client # Empty
       THEN [sessions EXCEPT ![BaseUrl][name] =
                                Entry([EmptyDict EXCEPT !["access_token"] = token])]
       ELSE sessions

\* mutant: an exception of the write is not caught and fails the login
session_login_done_write_raises ==
  /\ AtTop("auth", "login") /\ ret.kind = "value"
  /\ IF ret.response.exception
     THEN /\ ret' = Raise("ValueError", ServerMessage, 0)
          /\ UNCHANGED <<store, disk>>
     ELSE IF encrypt_raises
     THEN /\ ret' = Raise("EncryptionError", "", 0)
          /\ UNCHANGED <<store, disk>>
     ELSE /\ ret' = ret
          /\ _update_session_file(
               store_session(_read_encrypted_sessions, Top.resolved.username, username,
                             client_id, jar, oauth_token))
  /\ stack' = Pop
  /\ UNCHANGED <<inst, jar, api_calls, env, writers, query, sent, alive, ops, op, last, lastAuth>>

\* mutant: the session is stored before the body of the login response is looked at
session_login_done_stores_first ==
  /\ AtTop("auth", "login") /\ ret.kind = "value"
  /\ _update_session_file(
       store_session(_read_encrypted_sessions, Top.resolved.username, username,
                     client_id, jar, oauth_token))
  /\ IF ret.response.exception
     THEN ret' = Raise("ValueError", ServerMessage, 0)
     ELSE ret' = ret
  /\ stack' = Pop
  /\ UNCHANGED <<inst, jar, api_calls, env, writers, query, sent, alive, ops, op, last, lastAuth>>

\* _session_authentication, lines 143-153: the login request returned
session_login_done ==
  /\ AtTop("auth", "login") /\ ret.kind = "value"
  /\ IF ret.response.exception
     THEN /\ ret' = Raise("ValueError", ServerMessage, 0)
          /\ UNCHANGED <<store, disk>>
     ELSE /\ ret' = ret
          /\ _update_session_file(
               store_session(_read_encrypted_sessions, Top.resolved.username, username,
                             client_id, jar, oauth_token))
  /\ stack' = Pop
  /\ UNCHANGED <<inst, jar, api_calls, env, writers, query, sent, alive, ops, op, last, lastAuth>>

AuthorizeRequest(client, token, cookies) ==
  NewRequest("GET", AuthorizeEndpoint, [kind |-> "params", a |-> client, b |-> "code"],
             token, cookies, api_calls, Len(sent))

\* _oauth_authentication, lines 40-80, with load_session lines 72-87.  authenticate
\* leaves authorization_code at its default, so a live login takes the
\* authorization-code branch.
_oauth_authentication ==
  /\ AtTop("auth", "oauth")
  /\ client_id' = Top.resolved.client_id
  /\ client_secret' = Top.resolved.client_secret
  /\ IF Top.cache /\ Cached(_read_encrypted_sessions, Top.resolved.client_id)
     THEN LET payload == _read_encrypted_sessions[BaseUrl][Top.resolved.client_id].payload IN
          IF username # Empty
          THEN /\ jar' = Update(jar, payload)
               /\ oauth_token' = oauth_token
               /\ ret' = ret
               /\ stack' = Append(ReplaceTop([Top EXCEPT !.pc = "probe"]),
                                  ProbeRequest(oauth_token, Update(jar, payload)))
          ELSE IF payload["access_token"] = Nil
          THEN \* the oauth_token setter refuses an empty value
               /\ ret' = Raise("ValueError", EmptyTokenMessage, 0)
               /\ stack' = Pop
               /\ UNCHANGED <<jar, oauth_token>>
          ELSE /\ oauth_token' = payload["access_token"]
               /\ jar' = jar
               /\ ret' = ret
               /\ stack' = Append(ReplaceTop([Top EXCEPT !.pc = "probe"]),
                                  ProbeRequest(payload["access_token"], jar))
     ELSE /\ stack' = Append(ReplaceTop([Top EXCEPT !.pc = "authorize"]),
                             AuthorizeRequest(Top.resolved.client_id, oauth_token, jar))
          /\ UNCHANGED <<jar, oauth_token, ret>>
  /\ UNCHANGED <<username, password, api_calls, store, disk, env, writers, query, sent, alive, ops, op, last,
                 lastAuth>>

\* load_session, lines 88-92, and what _oauth_authentication does with its result
\* (lines 41-48, 69-80)
oauth_probe_done ==
  /\ AtTop("auth", "probe") /\ Top.track = "oauth"
  /\ \/ ret.kind = "value"
     \/ ret.kind = "exc" /\ ret.type = "TooManyRedirects"
  /\ IF ret.kind = "value" /\ ~ret.response.history
     THEN /\ ret' = ReturnValue(SyntheticResponse)
          /\ stack' = Pop
     ELSE /\ ret' = NoReturn
          /\ stack' = Append(ReplaceTop([Top EXCEPT !.pc = "authorize"]),
                             AuthorizeRequest(Top.resolved.client_id, oauth_token, jar))
  /\ UNCHANGED <<inst, jar, api_calls, store, disk, env, writers, query, sent, alive, ops, op, last, lastAuth>>

\* _oauth_authentication, lines 82-95: exchange the authorization code for a token
oauth_authorize_done ==
  /\ AtTop("auth", "authorize") /\ ret.kind = "value"
  /\ ret' = NoReturn
  /\ stack' = Append(ReplaceTop([Top EXCEPT !.pc = "token"]),
                     NewRequest("POST", TokenEndpoint,
                                [kind |-> "params", a |-> Top.resolved.client_id,
                                 b |-> Top.resolved.client_secret],
                                oauth_token, jar, api_calls, Len(sent)))
  /\ UNCHANGED <<inst, jar, api_calls, store, disk, env, writers, query, sent, alive, ops, op, last, lastAuth>>

\* _oauth_authentication, line 97: exit(1) ends the process once the token request returned
oauth_token_done ==
  /\ AtTop("auth", "token") /\ ret.kind = "value"
  /\ ret' = Raise("SystemExit", "", 1)
  /\ stack' = <<>>
  /\ alive' = FALSE
  /\ UNCHANGED <<inst, jar, api_calls, store, disk, env, writers, query, sent, ops, op, last, lastAuth>>

\* an exception leaves a frame that has no handler for it: make_request catches
\* HTTPError of its first attempt only, load_session catches TooManyRedirects only
propagate ==
  /\ Running /\ ret.kind = "exc"
  /\ ~(Top.kind = "auth" /\ Top.pc = "probe" /\ ret.type = "TooManyRedirects")
  /\ stack' = Pop
  /\ UNCHANGED <<inst, jar, api_calls, store, disk, env, writers, query, ret, sent, alive, ops, op, last, lastAuth>>

Next ==
  \/ get_collection_data
  \/ add_collection_data
  \/ authenticate
  \/ session_request
  \/ make_request_except
  \/ make_request_retry
  \/ make_request_finish
  \/ authenticate_dispatch
  \/ _session_authentication
  \/ session_probe_done
  \/ session_login_done
  \/ _oauth_authentication
  \/ oauth_probe_done
  \/ oauth_authorize_done
  \/ oauth_token_done
  \/ propagate

Spec == Init /\ [][Next]_vars

\* ------------------------------------------- writers of the sessions file
\* Processes (or instances) that share the sessions file, each running
\* store_session once for its own user, one file operation per step.  A process
\* can be interrupted between any two steps.
MaxWriters == 2
Writers == 1..MaxWriters
WriterNames == <<"alice", "bob", "env_user">>

NewWriter(name) ==
  [pc |-> "idle", username |-> name, session_cookies |-> FreshCookies,
   sessions_data |-> EmptyStore, overlapped |-> FALSE]

\* the instance itself makes no call while the writers run
InstanceIdle ==
  /\ username = Empty /\ password = Empty
  /\ client_id = Empty /\ client_secret = Empty
  /\ oauth_token = Empty
  /\ jar = EmptyDict
  /\ api_calls = 0
  /\ env = NoArgs
  /\ stack = <<>>
  /\ ret = NoReturn
  /\ sent = <<>>
  /\ alive = TRUE
  /\ ops = 0
  /\ op = NoOp
  /\ last = NoLast
  /\ lastAuth = NoLastAuth

InstanceUnchanged ==
  UNCHANGED <<inst, jar, api_calls, env, stack, ret, sent, alive, ops, op, last, lastAuth>>

FileInit ==
  /\ InstanceIdle
  /\ \E sessions \in InitialStores :
       /\ store = sessions
       /\ disk = (IF sessions = EmptyStore THEN "missing" ELSE "ok")
  /\ writers = [w \in Writers |-> NewWriter(WriterNames[w])]
  /\ query = NoQuery

InProgress(w) == writers[w].pc \in {"modified", "opened"}

\* store_session, lines 104-114: read the whole store and set the entry of the user
store_session_read(w) ==
  /\ writers[w].pc = "idle"
  /\ writers' =
       [v \in Writers |->
          IF v = w
          THEN [writers[w] EXCEPT
                  !.pc = "modified",
                  !.sessions_data =
                     store_session(_read_encrypted_sessions, writers[w].username,
                                   writers[w].username, Empty,
                                   writers[w].session_cookies, Empty),
                  !.overlapped = \E x \in Writers : InProgress(x)]
          ELSE IF InProgress(v) THEN [writers[v] EXCEPT !.overlapped = TRUE]
          ELSE writers[v]]
  /\ UNCHANGED <<store, disk, query>>
  /\ InstanceUnchanged

\* _update_session_file, lines 53-54: encrypt, then Path.write_bytes opens the file
\* for writing, which empties it
write_bytes_open(w) ==
  /\ writers[w].pc = "modified"
  /\ writers' = [writers EXCEPT ![w].pc = "opened"]
  /\ store' = EmptyStore
  /\ disk' = "corrupt"
  /\ UNCHANGED query
  /\ InstanceUnchanged

\* _update_session_file, line 54: the bytes are written and the file is closed
write_bytes_close(w) ==
  /\ writers[w].pc = "opened"
  /\ writers' = [writers EXCEPT ![w].pc = "done"]
  /\ store' = writers[w].sessions_data
  /\ disk' = "ok"
  /\ UNCHANGED query
  /\ InstanceUnchanged

\* the process is killed, or the machine stops, in the middle of store_session
interrupt(w) ==
  /\ InProgress(w)
  /\ writers' = [writers EXCEPT ![w].pc = "killed"]
  /\ UNCHANGED <<store, disk, query>>
  /\ InstanceUnchanged

FileNext ==
  \E w \in Writers :
    \/ store_session_read(w)
    \/ write_bytes_open(w)
    \/ write_bytes_close(w)
    \/ interrupt(w)

FileSpec == FileInit /\ [][FileNext]_vars

\* ------------------------------------------------- get_collection_data call
\* One call of get_collection_data with its arguments drawn from small sets, up to
\* the request that make_request is about to send.  None is Nil; a str | list
\* argument is a record that says which of the two it is.
QueryKeys == {"$count", "$skip", "$top", "$select", "$expand", "$orderby", "$filter"}
ParamKeys == QueryKeys \cup {"$apply"}
EmptyParams == [k \in ParamKeys |-> Nil]

Str(s) == [list |-> FALSE, items |-> <<s>>]
List(items) == [list |-> TRUE, items |-> items]
NoneArg == [list |-> FALSE, items |-> <<>>]

\* truth value of an Optional[str] and of an Optional[str | list[str]]
TruthyStr(s) == s # Nil /\ s # Empty
TruthyArg(a) == a.items # <<>> /\ (a.list \/ a.items[1] # Empty)

\* sep.join(items)
RECURSIVE Join(_, _)
Join(items, sep) ==
  IF items = <<>> THEN ""
  ELSE IF Len(items) = 1 THEN items[1]
  ELSE items[1] \o sep \o Join(Tail(items), sep)

\* str(flag).lower() of a bool
Lower(flag) == IF flag = "True" THEN "true" ELSE "false"

\* the params mappings a caller passes: None, and one that defines every query key
CallerParams ==
  { EmptyParams,
    [EmptyParams EXCEPT !["$apply"] = "aggregate(Id)"],
    [k \in ParamKeys |-> "p" \o k] }

QueryArgs ==
  [collection : {"Case", "$metadata"},
   params : CallerParams,
   record_id : {Nil, "id1"},
   only_count : {"False", "True"},
   count : {Nil, "True", "False"},
   skip : {Nil, "0"},
   top : {Nil, "5"},
   select : {NoneArg, Str("Id,Name"), List(<<"Id", "Name">>)},
   expand : {NoneArg, List(<<"Owner", "Account", "Contact">>), List(<<>>)},
   value : {Nil, "Name"},
   order_by : {Nil, "Name desc"},
   filter : {Nil, "Id eq 1"},
   property : {Nil, "Data"}]

\* mutant: the record id is appended after the field value
Endpoint_value_first(a) ==
  "0/odata/" \o a.collection
    \o (IF TruthyStr(a.value) THEN "/" \o a.value \o "/$value" ELSE "")
    \o (IF TruthyStr(a.record_id) THEN "(" \o a.record_id \o ")" ELSE "")
    \o (IF TruthyStr(a.property) THEN "/" \o a.property
        ELSE IF a.only_count = "True" THEN "/$count" ELSE "")

\* get_collection_data, lines 90-99: the endpoint
Endpoint(a) ==
  "0/odata/" \o a.collection
    \o (IF TruthyStr(a.record_id) THEN "(" \o a.record_id \o ")" ELSE "")
    \o (IF TruthyStr(a.value) THEN "/" \o a.value \o "/$value" ELSE "")
    \o (IF TruthyStr(a.property) THEN "/" \o a.property
        ELSE IF a.only_count = "True" THEN "/$count" ELSE "")

\* get_collection_data, lines 101-117: the query parameters; every explicit argument
\* is assigned into the mapping of the caller
QueryParams(a) ==
  [k \in ParamKeys |->
     CASE k = "$count" /\ a.count # Nil -> Lower(a.count)
       [] k = "$skip" /\ a.skip # Nil -> a.skip
       [] k = "$top" /\ a.top # Nil -> a.top
       [] k = "$select" /\ TruthyArg(a.select) ->
            IF a.select.list THEN Join(a.select.items, ",") ELSE a.select.items[1]
       [] k = "$expand" /\ TruthyArg(a.expand) ->
            IF a.expand.list THEN Join(a.expand.items, ",") ELSE a.expand.items[1]
       [] k = "$orderby" /\ TruthyStr(a.order_by) -> a.order_by
       [] k = "$filter" /\ TruthyStr(a.filter) -> a.filter
       [] OTHER -> a.params[k]]

QueryInit ==
  /\ username = Empty /\ password = Empty
  /\ client_id = Empty /\ client_secret = Empty
  /\ oauth_token \in {Empty, "tok1"}
  /\ jar \in {EmptyDict, CachedCookies}
  /\ api_calls = 0
  /\ store = EmptyStore /\ disk = "missing"
  /\ env = NoArgs
  /\ stack = <<>>
  /\ ret = NoReturn
  /\ sent = <<>>
  /\ alive = TRUE
  /\ ops = 0
  /\ op = NoOp
  /\ last = NoLast
  /\ lastAuth = NoLastAuth
  /\ writers = NoWriters
  /\ \E a \in QueryArgs : query = [pc |-> "args", args |-> a, params |-> EmptyParams, requests |-> 0]

\* get_collection_data, lines 90-119, up to the first attempt of make_request
get_collection_data_call ==
  /\ query.pc = "args" /\ stack = <<>>
  /\ query' = [query EXCEPT !.pc = "request", !.params = QueryParams(query.args),
                            !.requests = @ + 1]
  /\ stack' = <<NewRequest("GET", Endpoint(query.args), NoBody, oauth_token, jar, api_calls, 0)>>
  /\ UNCHANGED <<inst, jar, api_calls, store, disk, env, writers, ret, sent, alive, ops, op, last,
                 lastAuth>>

QueryNext == get_collection_data_call

QuerySpec == QueryInit /\ [][QueryNext]_vars

\* ------------------------------------------------------------ store keys
\* Two instances on one sessions file, each constructed with its own way of
\* writing the base url: the first stores a session, the second looks one up.
\* base_url is a pydantic HttpUrl; str() of it gives a host-only url the path "/"
\* and leaves every other path as it was written.
GivenUrls ==
  [origin : {"https://x.creatio.com", "https://y.creatio.com"},
   path : {"", "/", "/creatio", "/creatio/"}]
HttpUrlStr(u) == u.origin \o (IF u.path = "" THEN "/" ELSE u.path)
KeyUrls == {HttpUrlStr(u) : u \in GivenUrls}
KeyNames == {"alice", "bob"}
EmptyKeyStore == [k \in KeyUrls |-> [p \in KeyNames |-> NoEntry]]

KeyInit ==
  /\ InstanceIdle
  /\ store = EmptyKeyStore /\ disk = "missing"
  /\ query = NoQuery
  /\ \E u1 \in GivenUrls, u2 \in GivenUrls, n1 \in KeyNames, n2 \in KeyNames :
       writers = << [pc |-> "store", base_url |-> u1, username |-> n1, found |-> FALSE],
                    [pc |-> "wait", base_url |-> u2, username |-> n2, found |-> FALSE] >>

\* store_session, lines 104-119: sessions_data[str(base_url)][username] = cookies
store_session_keyed ==
  /\ writers[1].pc = "store"
  /\ LET url == HttpUrlStr(writers[1].base_url) IN
     store' = [store EXCEPT ![url][writers[1].username] = Entry(FreshCookies)]
  /\ disk' = "ok"
  /\ writers' = [writers EXCEPT ![1].pc = "done", ![2].pc = "load"]
  /\ UNCHANGED query
  /\ InstanceUnchanged

\* load_session, lines 72-75: url not in sessions_data or username not in sessions_data[url]
load_session_keyed ==
  /\ writers[2].pc = "load"
  /\ LET url == HttpUrlStr(writers[2].base_url) IN
     writers' = [writers EXCEPT ![2].pc = "done",
                                ![2].found = store[url][writers[2].username].present]
  /\ UNCHANGED <<store, disk, query>>
  /\ InstanceUnchanged

KeyNext == store_session_keyed \/ load_session_keyed

KeySpec == KeyInit /\ [][KeyNext]_vars

\* ------------------------------------------- a service without CSRF cookie
\* The same instance against a service that may accept a login without issuing a
\* BPMCSRF cookie (its CSRF protection is switched off): the login response then
\* sets the authentication cookie only.
SessionOnlyCookies == [EmptyDict EXCEPT ![".ASPXAUTH"] = "auth2"]

\* make_request, lines 60-63 and 70: the login request answered 200 with no
\* BPMCSRF cookie
session_request_no_csrf ==
  /\ Running /\ Top.kind = "req" /\ Top.pc \in {"first", "retry"}
  /\ Top.endpoint = LoginEndpoint
  /\ Len(sent) < MaxExchanges
  /\ LET r == HttpResponse(OkStatus, SessionOnlyCookies, FALSE, FALSE) IN
     /\ sent' = Append(sent, SentEntry(Top, r))
     /\ jar' = Update(jar, r.cookies)
     /\ ret' = NoReturn
     /\ stack' = ReplaceTop(
          [Top EXCEPT !.response = r, !.sends = @ + 1,
                      !.first = IF Top.pc = "first" THEN r.status ELSE @,
                      !.pc = AfterResponse(Top.pc, r.status)])
  /\ UNCHANGED <<inst, api_calls, store, disk, env, writers, query, alive, ops, op, last, lastAuth>>

\* the sessions file is readable and the environment names no credential
NoCsrfInit == Init /\ env = NoArgs /\ disk = "ok"

NoCsrfNext == Next \/ session_request_no_csrf

NoCsrfSpec == NoCsrfInit /\ [][NoCsrfNext]_vars

\* ------------------------------------------ two users cached under one url
\* The sessions file holds a session of alice and one of bob for the url of the
\* instance; bob's was written after a login that set the session cookie only.
OtherCachedCookies == [EmptyDict EXCEPT ![".ASPXAUTH"] = "auth3"]

SwitchStores ==
  { [EmptyStore EXCEPT ![BaseUrl]["alice"] = Entry(CachedCookies),
                       ![BaseUrl]["bob"] = Entry(OtherCachedCookies)],
    [EmptyStore EXCEPT ![BaseUrl]["cid"] = Entry(CachedToken)] }

SwitchInit ==
  /\ InstanceIdle
  /\ store \in SwitchStores
  /\ disk = "ok"
  /\ writers = NoWriters
  /\ query = NoQuery

SwitchSpec == SwitchInit /\ [][Next]_vars

\* ------------------------------------------------------------ upload_file
\* One upload_file call on an instance that holds a session: the record is created
\* with add_collection_data, the bytes are posted with make_request, and the record
\* is deleted again when that request raises.  query is the call in progress:
\* where it stands, the exception its handler caught, the deletes it issued and
\* the statement that raised what the caller sees.
UploadEndpoint == "0/rest/FileApiService/UploadFile"
FileIdMessage == "Could not determine the file ID from the response"
\* requests.exceptions.RequestException and the subclasses the transport raises
RequestExceptions == {"HTTPError", "ConnectionError", "TooManyRedirects"}

NewUpload == [pc |-> "idle", caught |-> NoReturn, deletes |-> 0, raised_by |-> "none"]

UploadInit ==
  /\ username = "alice" /\ password = "pw"
  /\ client_id = Empty /\ client_secret = Empty
  /\ oauth_token = Empty
  /\ jar = CachedCookies
  /\ api_calls = 0
  /\ store = [EmptyStore EXCEPT ![BaseUrl]["alice"] = Entry(CachedCookies)]
  /\ disk = "ok"
  /\ env = NoArgs
  /\ stack = <<>>
  /\ ret = NoReturn
  /\ sent = <<>>
  /\ alive = TRUE
  /\ ops = 0
  /\ op = NoOp
  /\ last = NoLast
  /\ lastAuth = NoLastAuth
  /\ writers = NoWriters
  /\ query = NewUpload

\* upload_file, lines 78-93: the file is read and add_collection_data creates the record
upload_file ==
  \E c \in Collections :
    /\ query.pc = "idle"
    /\ BeginOp("upload_file", NoArgs, FALSE)
    /\ stack' = <<NewRequest("POST", "0/odata/" \o c, [kind |-> "json", a |-> "payload", b |-> ""],
                             oauth_token, jar, api_calls, 0)>>
    /\ query' = [query EXCEPT !.pc = "create"]
    /\ UNCHANGED <<inst, jar, api_calls, store, disk, env, writers, alive>>

\* upload_file, lines 93-126: add_collection_data raised, or its response has no Id,
\* or the bytes are posted to the upload service
upload_created ==
  /\ alive /\ query.pc = "create" /\ stack = <<>> /\ ret.kind # "none"
  /\ IF ret.kind = "exc"
     THEN /\ query' = [query EXCEPT !.pc = "raised", !.raised_by = "create"]
          /\ UNCHANGED <<ret, stack, sent>>
     ELSE \E has_id \in BOOLEAN :
            IF has_id
            THEN /\ query' = [query EXCEPT !.pc = "upload"]
                 /\ ret' = NoReturn
                 /\ sent' = <<>>
                 /\ stack' = <<NewRequest("POST", UploadEndpoint,
                                          [kind |-> "data", a |-> "bytes", b |-> ""],
                                          oauth_token, jar, api_calls, 0)>>
            ELSE /\ query' = [query EXCEPT !.pc = "raised", !.raised_by = "create"]
                 /\ ret' = Raise("ValueError", FileIdMessage, 0)
                 /\ UNCHANGED <<stack, sent>>
  /\ UNCHANGED <<inst, jar, api_calls, store, disk, env, writers, alive, ops, op, last, lastAuth>>

\* upload_file, line 135: the upload request returned
upload_done ==
  /\ alive /\ query.pc = "upload" /\ stack = <<>> /\ ret.kind = "value"
  /\ query' = [query EXCEPT !.pc = "returned"]
  /\ UNCHANGED <<inst, jar, api_calls, store, disk, env, writers, stack, ret, sent, alive, ops, op,
                 last, lastAuth>>

\* upload_file, lines 127-132: the upload request raised.  Another exception than a
\* RequestException passes through; for an exception that carries a response the
\* handler parses the body of that response as JSON, which raises when the body is
\* not JSON; then delete_collection_data is called for the record
upload_except ==
  /\ alive /\ query.pc = "upload" /\ stack = <<>> /\ ret.kind = "exc"
  /\ IF ret.type \notin RequestExceptions
     THEN /\ query' = [query EXCEPT !.pc = "raised", !.raised_by = "upload"]
          /\ UNCHANGED <<ret, stack, sent>>
     ELSE \E body_is_json \in BOOLEAN :
            IF ret.type = "HTTPError" /\ ~body_is_json
            THEN /\ query' = [query EXCEPT !.pc = "raised", !.caught = ret,
                                           !.raised_by = "handler"]
                 /\ ret' = Raise("JSONDecodeError", "", 0)
                 /\ UNCHANGED <<stack, sent>>
            ELSE \E c \in Collections :
                   /\ query' = [query EXCEPT !.pc = "delete", !.caught = ret,
                                             !.deletes = @ + 1]
                   /\ ret' = NoReturn
                   /\ sent' = <<>>
                   /\ stack' = <<NewRequest("DELETE", "0/odata/" \o c \o "(id)", NoBody,
                                            oauth_token, jar, api_calls, 0)>>
  /\ UNCHANGED <<inst, jar, api_calls, store, disk, env, writers, alive, ops, op, last, lastAuth>>

\* upload_file, lines 132-133: delete_collection_data returned and the caught
\* exception is raised again, or delete_collection_data raised itself
upload_deleted ==
  /\ alive /\ query.pc = "delete" /\ stack = <<>> /\ ret.kind # "none"
  /\ IF ret.kind = "value"
     THEN /\ ret' = query.caught
          /\ query' = [query EXCEPT !.pc = "raised", !.raised_by = "upload"]
     ELSE /\ ret' = ret
          /\ query' = [query EXCEPT !.pc = "raised", !.raised_by = "delete"]
  /\ UNCHANGED <<inst, jar, api_calls, store, disk, env, writers, stack, sent, alive, ops, op, last,
                 lastAuth>>

UploadNext ==
  \/ upload_file
  \/ upload_created
  \/ upload_done
  \/ upload_except
  \/ upload_deleted
  \/ session_request
  \/ make_request_except
  \/ make_request_retry
  \/ make_request_finish
  \/ authenticate_dispatch
  \/ _session_authentication
  \/ session_login_done
  \/ propagate

UploadSpec == UploadInit /\ [][UploadNext]_vars

\* ------------------------------------------- legacy plaintext cookies file
\* CreatioODataAPI of api.py keeps the cookies of its sessions in a JSON file,
\* {url: {username: cookies}}.  One _store_session_cookie call over a file that
\* holds any combination of entries for two users under two urls.
LegacyNames == {"alice", "bob"}
LegacyEntries == {NoEntry, Entry(CachedCookies), Entry(OtherCachedCookies)}
LegacyStores ==
  { [EmptyStore EXCEPT ![BaseUrl]["alice"] = a, ![BaseUrl]["bob"] = b,
                       ![OtherUrl]["alice"] = c, ![OtherUrl]["bob"] = d] :
      a \in LegacyEntries, b \in LegacyEntries, c \in LegacyEntries, d \in LegacyEntries }

\* _store_session_cookie, lines 102-115: load the file if it exists, assign a new
\* one-user mapping to the url, dump everything
_store_session_cookie(cookies_data, name, cookies) ==
  [cookies_data EXCEPT ![BaseUrl] =
     [p \in Principals |-> IF p = name THEN Entry(cookies) ELSE NoEntry]]

LegacyInit ==
  /\ username = Empty /\ password = Empty
  /\ client_id = Empty /\ client_secret = Empty
  /\ oauth_token = Empty
  /\ jar \in {FreshCookies, SessionOnlyCookies}
  /\ api_calls = 0
  /\ env = NoArgs
  /\ stack = <<>>
  /\ ret = NoReturn
  /\ sent = <<>>
  /\ alive = TRUE
  /\ ops = 0
  /\ op = NoOp
  /\ last = NoLast
  /\ lastAuth = NoLastAuth
  /\ store \in LegacyStores
  /\ disk = (IF store = EmptyStore THEN "missing" ELSE "ok")
  /\ writers = NoWriters
  /\ query = [pc |-> "legacy", username |-> Empty]

\* CreatioODataAPI._store_session_cookie(username) of api.py
legacy_store_session_cookie ==
  \E name \in LegacyNames :
    /\ query.pc = "legacy"
    /\ store' = _store_session_cookie(store, name, jar)
    /\ disk' = "ok"
    /\ query' = [pc |-> "stored", username |-> name]
    /\ UNCHANGED <<inst, jar, api_calls, env, writers, stack, ret, sent, alive, ops, op, last, lastAuth>>

LegacyNext == legacy_store_session_cookie

LegacySpec == LegacyInit /\ [][LegacyNext]_vars

\* ================================================================ claims
Unauthorized == 401
ReqFrames == {i \in 1..Len(stack) : stack[i].kind = "req"}
AuthFrames == {i \in 1..Len(stack) : stack[i].kind = "auth"}
SameRequest(a, b) == a.method = b.method /\ a.endpoint = b.endpoint /\ a.body = b.body
Finished == stack = <<>> /\ op.name # "none"

\* C1: a make_request call whose first attempt is answered 401 calls
\* authenticate(cache=False) exactly once, and once that call has returned it sends
\* the same request (method, endpoint, body) exactly one more time.
C1_OneReauthOneRetry ==
  /\ \A i \in ReqFrames :
       LET f == stack[i] IN
       f.first = Unauthorized =>
         /\ f.pc \in {"except", "reauth", "retry", "finish"}
         /\ f.auths = (IF f.pc = "except" THEN 0 ELSE 1)
         /\ f.sends = (IF f.pc = "finish" THEN 2 ELSE 1)
         /\ f.pc = "reauth" /\ i < Len(stack) =>
              /\ stack[i + 1].kind = "auth"
              /\ stack[i + 1].cache = FALSE
              /\ stack[i + 1].args = NoArgs
  /\ \A j \in 1..Len(sent) :
       sent[j].attempt = 2 =>
         \E i \in 1..(j - 1) :
           /\ sent[i].attempt = 1 /\ sent[i].depth = sent[j].depth
           /\ IsHttpError(sent[i].status)
           /\ SameRequest(sent[i], sent[j])
           /\ \A k \in (i + 1)..(j - 1) : sent[k].depth > sent[j].depth
  /\ last.first = Unauthorized /\ last.how # "none" => last.auths = 1 /\ last.sends = 2

C1_Witness ==
  /\ Finished /\ op.name = "add_collection_data"
  /\ last.depth = 1 /\ last.first = Unauthorized /\ last.how = "returned"
  /\ last.auths = 1 /\ last.sends = 2

\* C2: when the retry is answered 401 too, make_request raises the HTTP error, which
\* reaches the caller; the request is not sent a third time and authenticate is not
\* called a second time for it.
C2_SecondFailurePropagates ==
  /\ \A i \in ReqFrames : stack[i].sends <= 2 /\ stack[i].auths <= 1
  /\ \A i \in ReqFrames :
       stack[i].pc = "finish" /\ stack[i].sends = 2 => i = Len(stack) /\ ret.kind = "none"
  /\ last.how # "none" /\ last.sends = 2 /\ last.final = Unauthorized =>
       /\ last.how = "raised" /\ last.auths = 1
       /\ ret = Raise("HTTPError", "", Unauthorized)
       /\ Len(sent) = last.sent_len

C2_Witness ==
  /\ Finished /\ op.name = "get_collection_data"
  /\ last.how = "raised" /\ last.depth = 1
  /\ last.first = Unauthorized /\ last.final = Unauthorized /\ last.sends = 2
  /\ ret.kind = "exc" /\ ret.type = "HTTPError" /\ ret.status = Unauthorized

\* C3 (as claimed): one make_request call made by an operation that returns has
\* increased api_calls by exactly 1, with or without a re-authentication and retry.
C3_OneCallPerLogicalRequest ==
  last.how = "returned" /\ last.depth = 1 => last.exit_calls = last.entry_calls + 1

\* C4 (as claimed): a first response with an error status other than 401 starts no
\* re-authentication and the request is not sent a second time.
C4_ReauthOnlyOnUnauthorized ==
  \A i \in ReqFrames :
    IsHttpError(stack[i].first) /\ stack[i].first # Unauthorized =>
      stack[i].auths = 0 /\ stack[i].sends = 1

\* C5 (as claimed): the login request of a re-authentication that is answered with an
\* HTTP error status does not start a further re-authentication.
C5_NoNestedReauth ==
  \A i \in ReqFrames :
    (i >= 3 /\ stack[i - 2].kind = "req" /\ stack[i - 2].pc = "reauth"
       /\ stack[i].endpoint = LoginEndpoint)
    => stack[i].auths = 0

OkResponses(from, to) ==
  {i \in (from + 1)..to : sent[i].kind = "http" /\ ~IsHttpError(sent[i].status)}

\* C6: make_request returns a response only if its final response (the first one, or
\* the retry's) has a success status; otherwise it raises an HTTP error that carries
\* the status, and the failed request itself adds nothing to api_calls (the counter
\* moves only by the exchanges that succeeded inside the re-authentication).
C6_RaisesOnFinalError ==
  /\ last.how = "returned" =>
       /\ ~IsHttpError(last.final)
       /\ last.final = (IF last.sends = 1 THEN last.first ELSE last.final)
  /\ last.how = "raised" =>
       /\ IsHttpError(last.final) /\ IsHttpError(last.first) /\ last.sends = 2
       /\ ret = Raise("HTTPError", "", last.final)
       /\ sent[last.sent_len].status = last.final
       /\ api_calls = last.exit_calls
       /\ last.exit_calls - last.entry_calls =
            Cardinality(OkResponses(last.entry_sent, last.sent_len))
  /\ \A i \in ReqFrames :
       stack[i].pc = "finish" /\ IsHttpError(stack[i].response.status) =>
         api_calls - stack[i].entry_calls = Cardinality(OkResponses(stack[i].entry_sent, Len(sent)))

C6_Witness ==
  /\ Finished /\ op.name = "get_collection_data"
  /\ last.how = "raised" /\ last.depth = 1 /\ last.final = 500
  /\ ret.type = "HTTPError" /\ ret.status = 500
  /\ api_calls = op.entry_calls + 1

AllFour(r) ==
  r.username # Empty /\ r.password # Empty /\ r.client_id # Empty /\ r.client_secret # Empty
CompletePair(r) ==
  \/ r.username # Empty /\ r.password # Empty
  \/ r.client_id # Empty /\ r.client_secret # Empty
NoneAtAll(r) ==
  r.username = Empty /\ r.password = Empty /\ r.client_id = Empty /\ r.client_secret = Empty
Memory == Credentials(username, password, client_id, client_secret)

\* C7: authenticate with username, password, client_id and client_secret all
\* resolving to non-empty values raises the conflicting-credentials error before any
\* HTTP request is issued and before either track has run.
C7_ConflictBeforeAnyRequest ==
  /\ \A i \in AuthFrames :
       stack[i].pc # "enter" => ~AllFour(stack[i].resolved)
  /\ lastAuth.how # "none" /\ AllFour(lastAuth.resolved) =>
       /\ lastAuth.how = "conflict"
       /\ ret = Raise("ValueError", ConflictMessage, 0)
       /\ lastAuth.exit_sent = lastAuth.entry_sent /\ Len(sent) = lastAuth.entry_sent
       /\ Memory = lastAuth.memory

C7_Witness ==
  /\ Finished /\ op.name = "authenticate" /\ AllFour(op.args)
  /\ lastAuth.how = "conflict" /\ sent = <<>>
  /\ ret.kind = "exc" /\ ret.message = ConflictMessage

\* C8: authenticate with no credential resolving from arguments, environment or
\* memory raises "No credentials provided" without issuing any HTTP request; with
\* only incomplete pairs resolving it raises too, again without any request.
C8_MissingRaisesWithoutRequest ==
  /\ \A i \in AuthFrames :
       stack[i].pc # "enter" => CompletePair(stack[i].resolved)
  /\ lastAuth.how # "none" /\ ~CompletePair(lastAuth.resolved) =>
       /\ lastAuth.how \in {"missing", "invalid"}
       /\ lastAuth.how = "missing" <=> NoneAtAll(lastAuth.resolved)
       /\ ret.kind = "exc" /\ ret.type = "ValueError"
       /\ ret.message = (IF NoneAtAll(lastAuth.resolved) THEN MissingMessage
                         ELSE InvalidMethodMessage)
       /\ lastAuth.exit_sent = lastAuth.entry_sent /\ Len(sent) = lastAuth.entry_sent

C8_Witness ==
  /\ Finished /\ op.name = "authenticate"
  /\ op.args = Credentials("alice", Empty, Empty, Empty)
  /\ lastAuth.how = "invalid" /\ sent = <<>> /\ ret.kind = "exc"
  /\ env = NoArgs /\ ops = 1

\* C9: each credential field comes from the explicit argument if that is non-empty,
\* else from the environment variable if that is non-empty, else from the
\* instance's field; the credentials the track then uses are the resolved ones.
Chosen(arg, environ, memory) ==
  CASE arg # Empty -> arg
    [] arg = Empty /\ environ # Empty -> environ
    [] arg = Empty /\ environ = Empty -> memory
ChosenAll(r, a, m) ==
  /\ r.username = Chosen(a.username, env.username, m.username)
  /\ r.password = Chosen(a.password, env.password, m.password)
  /\ r.client_id = Chosen(a.client_id, env.client_id, m.client_id)
  /\ r.client_secret = Chosen(a.client_secret, env.client_secret, m.client_secret)

C9_ResolutionPriority ==
  /\ \A i \in AuthFrames :
       LET f == stack[i] IN
       f.pc # "enter" =>
         /\ ChosenAll(f.resolved, f.args, f.memory)
         /\ f.track = "session" /\ f.pc # "session" /\ Len(sent) = f.entry_sent =>
              /\ username = Chosen(f.args.username, env.username, f.memory.username)
              /\ password = Chosen(f.args.password, env.password, f.memory.password)
         /\ f.track = "oauth" /\ f.pc # "oauth" /\ Len(sent) = f.entry_sent =>
              /\ client_id = Chosen(f.args.client_id, env.client_id, f.memory.client_id)
              /\ client_secret =
                   Chosen(f.args.client_secret, env.client_secret, f.memory.client_secret)
         /\ i < Len(stack) /\ stack[i + 1].endpoint = LoginEndpoint =>
              stack[i + 1].body =
                LoginBody(Chosen(f.args.username, env.username, f.memory.username),
                          Chosen(f.args.password, env.password, f.memory.password))
  /\ lastAuth.how # "none" => ChosenAll(lastAuth.resolved, lastAuth.args, lastAuth.memory)

C9_Witness ==
  /\ lastAuth.how = "session"
  /\ lastAuth.args.username = Empty /\ env.username = "env_user"
  /\ lastAuth.memory.username = "bob"
  /\ username = "env_user"
  /\ Len(sent) = 1 /\ sent[1].endpoint = LoginEndpoint
  /\ sent[1].body = LoginBody("env_user", "env_pw")

\* C10: session track with cache=True: when the store holds cookies for
\* (base_url, username) and the probe request is answered with success and without a
\* redirect, authenticate sends nothing to the login endpoint and returns a
\* synthetic empty Response (status_code None).
C10_CacheShortCircuit ==
  ( /\ op.name = "authenticate" /\ op.cache
    /\ lastAuth.how = "session" /\ lastAuth.depth = 1
    /\ _read_encrypted_sessions[BaseUrl][lastAuth.resolved.username].present
    /\ Len(sent) >= 1
    /\ sent[1].endpoint = ProbeEndpoint /\ sent[1].depth = 2
    /\ sent[1].kind = "http" /\ sent[1].status = OkStatus /\ ~sent[1].history )
  => /\ Len(sent) = 1
     /\ \A i \in 1..Len(sent) : sent[i].endpoint # LoginEndpoint
     /\ ret.kind # "exc"
     /\ stack = <<>> => ret = ReturnValue(SyntheticResponse) /\ ret.status = 0

C10_Witness ==
  /\ Finished /\ op.name = "authenticate" /\ op.cache
  /\ lastAuth.how = "session" /\ lastAuth.resolved.username = "alice"
  /\ Len(sent) = 1 /\ sent[1].endpoint = ProbeEndpoint /\ sent[1].status = OkStatus
  /\ ~sent[1].history
  /\ ret = ReturnValue(SyntheticResponse)
  /\ jar = CachedCookies

ProbeFailed ==
  /\ AtTop("auth", "probe") /\ Top.track = "session"
  /\ \/ ret.kind = "exc" /\ ret.type = "TooManyRedirects"
     \/ ret.kind = "value" /\ ret.response.history

\* C11: session track with cache=True: when the probe of the cached cookies comes
\* back redirected (history non-empty) or raises TooManyRedirects, authenticate
\* clears the cookie jar and goes on to the login POST; the jar is empty when the
\* login request is first sent, so no cached cookie travels with it.
C11_StaleCacheFallsThrough ==
  /\ [][ProbeFailed =>
          /\ jar' = EmptyDict
          /\ ret'.kind = "none"
          /\ Len(stack') = Len(stack) + 1
          /\ stack'[Len(stack')].kind = "req" /\ stack'[Len(stack')].pc = "first"
          /\ stack'[Len(stack')].method = "POST"
          /\ stack'[Len(stack')].endpoint = LoginEndpoint]_vars
  /\ [](\A i \in AuthFrames :
          (stack[i].track = "session" /\ stack[i].pc = "login" /\ i < Len(stack)
             /\ stack[i + 1].sends = 0)
          => /\ jar = EmptyDict
             /\ stack[i + 1].endpoint = LoginEndpoint
             /\ stack[i + 1].headers["BPMCSRF"] = Nil)
  /\ [](\A j \in 1..Len(sent) :
          sent[j].endpoint = LoginEndpoint /\ sent[j].attempt = 1
          => sent[j].jar = EmptyDict /\ sent[j].headers["BPMCSRF"] = Nil)

C11_Witness ==
  /\ op.name = "authenticate" /\ op.cache /\ Len(sent) = 2
  /\ sent[1].endpoint = ProbeEndpoint /\ sent[1].jar = CachedCookies
  /\ sent[1].kind = "http" /\ sent[1].history
  /\ sent[2].endpoint = LoginEndpoint /\ sent[2].method = "POST"
  /\ sent[2].jar = EmptyDict

C13_CachedTokenWithoutRequest ==
  ( /\ op.name = "authenticate" /\ op.cache
    /\ lastAuth.how = "oauth" /\ lastAuth.depth = 1
    /\ _read_encrypted_sessions[BaseUrl][lastAuth.resolved.client_id].present )
  => /\ sent = <<>>
     /\ Finished =>
          /\ ret = ReturnValue(SyntheticResponse)
          /\ oauth_token =
               _read_encrypted_sessions[BaseUrl][lastAuth.resolved.client_id].payload["access_token"]

TokenAnswered ==
  /\ Len(sent) >= 1
  /\ sent[Len(sent)].endpoint = TokenEndpoint
  /\ sent[Len(sent)].kind = "http" /\ ~IsHttpError(sent[Len(sent)].status)

\* C14 (as claimed): OAuth track on a cache miss or with cache=False: once the token
\* request has been answered, authenticate comes back to its caller: either it
\* returns, with oauth_token set and stored for (base_url, client_id), or, the
\* answer holding no access_token, it raises an authentication error.
C14_LiveTokenInstalled ==
  (op.name = "authenticate" /\ lastAuth.how = "oauth" /\ TokenAnswered /\ stack = <<>>)
  => /\ alive
     /\ ret.kind = "value" =>
          /\ oauth_token # Empty
          /\ store[BaseUrl][lastAuth.resolved.client_id].present
          /\ store[BaseUrl][lastAuth.resolved.client_id].payload["access_token"] = oauth_token
     /\ ret.kind = "exc" => ret.type = "ValueError"

\* _oauth_authentication, lines 54-64: base_url without its trailing slash, with
\* ".creatio.com" replaced by "-is.creatio.com", plus "/connect/token"; and the
\* client_credentials form posted there
IdentityTokenUrl == "https://x-is.creatio.com/connect/token"
ClientCredentialsGrant(client, secret) ==
  [kind |-> "client_credentials", a |-> client, b |-> secret]

\* C15 (as claimed): the live OAuth login started by authenticate sends one POST
\* with grant_type=client_credentials, client_id and client_secret to the
\* identity-service token endpoint, and no authorization-code request.
C15_ClientCredentialsOnly ==
  (op.name = "authenticate" /\ lastAuth.how = "oauth" /\ lastAuth.depth = 1)
  => LET live == {j \in 1..Len(sent) :
                    sent[j].endpoint # ProbeEndpoint /\ sent[j].depth = 2
                      /\ sent[j].attempt = 1}
     IN /\ Cardinality(live) <= 1
        /\ \A j \in live :
             /\ sent[j].method = "POST"
             /\ sent[j].endpoint = IdentityTokenUrl
             /\ sent[j].body = ClientCredentialsGrant(lastAuth.resolved.client_id,
                                                      lastAuth.resolved.client_secret)
        /\ \A j \in 1..Len(sent) : sent[j].endpoint # AuthorizeEndpoint
        /\ Finished /\ ret.kind = "value" /\ ret.response.kind = "http" =>
             Cardinality(live) = 1

LoginRejected ==
  AtTop("auth", "login") /\ ret.kind = "value" /\ ret.response.exception

\* C16: when the login endpoint answers with a body that holds an Exception field,
\* the session track raises an error carrying the server's Exception.Message; the
\* sessions file is not written (neither by the login request nor by
\* store_session) and no request is sent after the rejection.
C16_RejectedLoginSurfaces ==
  /\ [][LoginRejected =>
          /\ ret' = Raise("ValueError", ServerMessage, 0)
          /\ stack' = Pop
          /\ UNCHANGED <<store, disk, sent, jar>>]_vars
  /\ [][(AtTop("req", "finish") /\ Top.endpoint = LoginEndpoint)
          => UNCHANGED <<store, disk>>]_vars
  /\ [](ret.kind = "exc" /\ ret.message = ServerMessage =>
          /\ ret.type = "ValueError"
          /\ last.endpoint = LoginEndpoint /\ last.how = "returned"
          /\ last.sent_len = Len(sent)
          /\ sent[Len(sent)].endpoint = LoginEndpoint)

C16_Witness ==
  /\ Finished /\ op.name = "authenticate" /\ ~op.cache /\ ops = 1
  /\ op.args = Credentials("alice", "pw", Empty, Empty)
  /\ ret = Raise("ValueError", ServerMessage, 0)
  /\ Len(sent) = 1 /\ sent[1].endpoint = LoginEndpoint /\ sent[1].status = OkStatus
  /\ disk = "ok" /\ store[BaseUrl]["alice"] = Entry(CachedCookies)

LoginAccepted ==
  AtTop("auth", "login") /\ ret.kind = "value" /\ ~ret.response.exception

\* C17: when a live session login has succeeded (directly, or inside the recovery
\* of a request) and an encryption key is configured, reading the store back gives
\* for (base_url, username) exactly the cookies the jar holds at that moment, the
\* cookies set by the login response among them.
C17_StoreLoadRoundTrip ==
  /\ [][(LoginAccepted /\ ~encrypt_raises) =>
          LET name == Top.resolved.username IN
          /\ _read_encrypted_sessions'[BaseUrl][name] = Entry(jar)
          /\ jar' = jar
          /\ \A k \in Keys :
               ret.response.cookies[k] # Nil =>
                 _read_encrypted_sessions'[BaseUrl][name].payload[k] = ret.response.cookies[k]]_vars
  /\ [](\A i \in AuthFrames :
          (stack[i].pc = "login" /\ i < Len(stack) /\ stack[i + 1].pc = "finish"
             /\ i + 1 = Len(stack))
          => \A k \in Keys : stack[i + 1].response.cookies[k] # Nil =>
               jar[k] = stack[i + 1].response.cookies[k])

C17_Witness ==
  /\ Finished /\ op.name = "get_collection_data" /\ ops = 1
  /\ Len(sent) = 3 /\ sent[2].endpoint = LoginEndpoint /\ sent[2].status = OkStatus
  /\ ret.kind = "value"
  /\ username = "env_user" /\ jar = FreshCookies
  /\ _read_encrypted_sessions[BaseUrl]["env_user"] = Entry(FreshCookies)

\* the principal whose entry the step in progress stores: the resolved username in
\* store_session after a login, the instance's username when a response set cookies
Written == IF AtTop("auth", "login") THEN Top.resolved.username ELSE username

\* C18: on a readable store, a step that stores a credential for (base_url, x)
\* changes no entry of another principal at base_url and no entry at another url,
\* however many store operations have gone before.
C18_StoreIsolation ==
  [][disk # "corrupt" =>
       \A u \in Urls, p \in Principals :
         store'[u][p] # store[u][p] => u = BaseUrl /\ p = Written]_vars

C18_Witness ==
  /\ disk = "ok" /\ Finished /\ op.name = "authenticate"
  /\ store[BaseUrl]["bob"] = Entry(FreshCookies)
  /\ store[BaseUrl]["alice"] = Entry(CachedCookies)
  /\ store[OtherUrl]["bob"] = Entry(CachedCookies)

\* C19: with the sessions file missing, unreadable or failing decryption, reading
\* the store gives the empty store and raises nothing: authenticate(cache=True)
\* then goes on as on a cache miss, straight to the live login (session track) or
\* to the live token flow (OAuth track), without a probe.
C19_FailOpenRead ==
  /\ [][((AtTop("auth", "session") \/ AtTop("auth", "oauth")) /\ Top.cache /\ disk # "ok") =>
          /\ ret'.kind # "exc"
          /\ Len(stack') = Len(stack) + 1
          /\ stack'[Len(stack')].kind = "req" /\ stack'[Len(stack')].pc = "first"
          /\ stack'[Len(stack')].endpoint =
               (IF Top.pc = "session" THEN LoginEndpoint ELSE AuthorizeEndpoint)
          /\ Top.pc = "session" => jar' = EmptyDict
          /\ UNCHANGED <<store, disk>>]_vars
  /\ [](disk # "ok" /\ op.name = "authenticate" /\ Len(sent) >= 1
          => sent[1].endpoint \in {LoginEndpoint, AuthorizeEndpoint})

C19_Witness ==
  /\ op.name = "authenticate" /\ op.cache /\ ops = 1
  /\ op.args = Credentials("alice", "pw", Empty, Empty)
  /\ disk = "corrupt" /\ store[BaseUrl]["alice"].present
  /\ Len(sent) = 1 /\ sent[1].endpoint = LoginEndpoint /\ sent[1].method = "POST"
  /\ sent[1].jar = EmptyDict

\* C20: when the store is written with no encryption key configured (the write of
\* an accepted login), the encryption error reaches the caller of the write, so
\* the login ends with an exception, and the sessions file is left as it was.
C20_FailClosedWrite ==
  [][(LoginAccepted /\ encrypt_raises) =>
       (ret'.kind = "exc" /\ UNCHANGED <<store, disk>>)]_vars

\* C21: when the write of the store fails inside store_session after an accepted
\* login, the authenticate call in progress still returns the login response, and
\* a make_request call that was recovering goes on with its retry; the cookie jar
\* and the token stay as the login left them.
C21_PersistFailureTolerated ==
  /\ [][(LoginAccepted /\ encrypt_raises) =>
          /\ ret' = ret
          /\ stack' = Pop
          /\ jar' = jar /\ oauth_token' = oauth_token
          /\ \A k \in Keys : ret.response.cookies[k] # Nil => jar'[k] = ret.response.cookies[k]
          /\ Len(stack') > 0 =>
               stack'[Len(stack')].kind = "req" /\ stack'[Len(stack')].pc = "reauth"]_vars
  /\ [][(AtTop("req", "reauth") /\ ret.kind = "value" /\ encrypt_raises) =>
          stack'[Len(stack')].pc = "retry" /\ jar' = jar]_vars

C21_Witness ==
  /\ Finished /\ op.name = "authenticate" /\ disk = "nokey"
  /\ Len(sent) = 1 /\ sent[1].endpoint = LoginEndpoint
  /\ ret.kind = "value" /\ ret.response.cookies = FreshCookies /\ ~ret.response.exception
  /\ jar = FreshCookies
  /\ ~store[BaseUrl][username].present

\* C22 (as claimed): at every point of a store write, an interruption between its
\* steps included, the sessions file holds a complete store: the one it held before
\* the write or the one being written.
C22_NeverPartiallyWritten ==
  /\ disk # "corrupt"
  /\ \A w \in DOMAIN writers :
       writers[w].pc \in {"opened", "killed"} =>
         disk = "missing" \/ _read_encrypted_sessions # EmptyStore

C28_ParamsOverrideArguments ==
  query.pc = "request" =>
    \A k \in QueryKeys :
      query.args.params[k] # Nil => query.params[k] = query.args.params[k]

\* C29: get_collection_data builds 0/odata/{collection}, then "({record_id})" when a
\* record id is given, then "/{value}/$value" when a value is given; a list given
\* for select or expand is sent as one comma-joined string; exactly one GET goes
\* through make_request, with that endpoint and those parameters.
C29_EndpointAndLists ==
  query.pc = "request" =>
    LET a == query.args
        base == "0/odata/" \o a.collection
        withId == IF a.record_id # Nil THEN base \o "(" \o a.record_id \o ")" ELSE base
        withValue == IF a.value # Nil THEN withId \o "/" \o a.value \o "/$value" ELSE withId
        url == stack[1].endpoint
    IN
    /\ query.requests = 1 /\ Len(stack) = 1
    /\ stack[1].kind = "req" /\ stack[1].method = "GET" /\ stack[1].pc = "first"
    /\ Len(url) >= Len(withValue) /\ SubSeq(url, 1, Len(withValue)) = withValue
    /\ a.property = Nil /\ a.only_count = "False" => url = withValue
    /\ a.select = List(<<"Id", "Name">>) => query.params["$select"] = "Id,Name"
    /\ a.expand = List(<<"Owner", "Account", "Contact">>) =>
         query.params["$expand"] = "Owner,Account,Contact"
    /\ a.select = Str("Id,Name") => query.params["$select"] = "Id,Name"

C29_Witness ==
  /\ query.pc = "request"
  /\ query.args.record_id = "id1" /\ query.args.value = "Name"
  /\ query.args.property = Nil /\ query.args.only_count = "False"
  /\ query.args.select = List(<<"Id", "Name">>) /\ query.args.params = EmptyParams
  /\ stack[1].endpoint = "0/odata/Case(id1)/Name/$value"
  /\ query.params["$select"] = "Id,Name"

\* C24 (as claimed): when a call returns a successful response that carries cookies
\* from an endpoint other than the login endpoint, the jar holds those cookies and
\* the store holds the jar under the current principal: the username in session
\* mode, the client id in OAuth mode.  A response of the login endpoint makes
\* make_request write nothing.
CurrentPrincipal == IF oauth_token # Empty THEN client_id ELSE username

C24_CookiesPersistedForPrincipal ==
  /\ []((/\ Finished /\ op.name \in {"get_collection_data", "add_collection_data"}
         /\ ret.kind = "value" /\ Truthy(ret.response.cookies)
         /\ ~encrypt_raises)
          => /\ jar = Update(jar, ret.response.cookies)
             /\ _read_encrypted_sessions[BaseUrl][CurrentPrincipal] = Entry(jar))
  /\ [][(AtTop("req", "finish") /\ Top.endpoint = LoginEndpoint)
          => UNCHANGED <<store, disk>>]_vars

\* C25: a first attempt that ends in a connection error, with no HTTP status
\* received, makes make_request raise that error, which travels unchanged to the
\* caller of the operation or of authenticate: nothing is sent afterwards (no
\* re-authentication, no retry) and the failed exchange adds nothing to api_calls.
Completed(j) ==
  Cardinality({i \in 1..(j - 1) : sent[i].kind = "http" /\ ~IsHttpError(sent[i].status)})

C25_TransportFailurePropagates ==
  \A j \in 1..Len(sent) :
    sent[j].kind = "ConnectionError" /\ sent[j].attempt = 1 =>
      /\ j = Len(sent)
      /\ ret = Raise("ConnectionError", "", 0)
      /\ Len(stack) < sent[j].depth
      /\ api_calls = op.entry_calls + Completed(j)

C25_Witness ==
  /\ Finished /\ op.name = "authenticate"
  /\ Len(sent) = 1 /\ sent[1].endpoint = LoginEndpoint /\ sent[1].kind = "ConnectionError"
  /\ ret = Raise("ConnectionError", "", 0)
  /\ api_calls = op.entry_calls

\* C26 (as claimed): once the first authenticate call made on a new instance has
\* returned, api_calls is 1, whether a cached session passed the probe, no session
\* was cached, or the cached session was stale and a live login followed.
C26_FirstAuthenticateCountsOne ==
  Finished /\ ops = 1 /\ op.name = "authenticate" /\ ret.kind = "value" => api_calls = 1

\* C27: api_calls never goes down and is never negative, over any sequence of
\* authenticate and operation calls; it goes up by exactly one for each HTTP
\* exchange that completes with a non-error status, and by nothing else.
Succeeded == {i \in 1..Len(sent) : sent[i].kind = "http" /\ ~IsHttpError(sent[i].status)}
\* an exchange that has its response but has not reached the counting line yet
Uncounted ==
  IF AtTop("req", "finish") /\ ~IsHttpError(Top.response.status) THEN 1 ELSE 0

C27_CounterMonotonic ==
  /\ [][api_calls' = api_calls \/ api_calls' = api_calls + 1]_vars
  /\ [](api_calls >= 0)
  /\ [](api_calls + Uncounted = op.entry_calls + Cardinality(Succeeded))

C27_Witness ==
  /\ Finished /\ ops = 2 /\ op.name = "get_collection_data"
  /\ last.first = Unauthorized /\ last.how = "returned" /\ last.depth = 1
  /\ Cardinality(Succeeded) = 2 /\ op.entry_calls = 1 /\ api_calls = 3

\* C30: two writers that run store_session on the same sessions file for different
\* users can interleave their read-modify-write cycles so that the entry of one of
\* them is lost; when the store operations run one after the other, every entry
\* written is there afterwards, next to the entries the file held before.
AllQuiet == \A w \in DOMAIN writers : writers[w].pc \in {"idle", "done"}
Kept(w) ==
  _read_encrypted_sessions[BaseUrl][writers[w].username] = Entry(writers[w].session_cookies)
Lost(w) == writers[w].pc = "done" /\ ~Kept(w)

C30_LastWriteWins ==
  /\ (AllQuiet /\ \A w \in DOMAIN writers : ~writers[w].overlapped) =>
       /\ \A w \in DOMAIN writers : writers[w].pc = "done" => Kept(w)
       /\ (\E w \in DOMAIN writers : writers[w].pc = "done") =>
            _read_encrypted_sessions[OtherUrl] \in {s[OtherUrl] : s \in InitialStores}
  /\ AllQuiet =>
       \A w \in DOMAIN writers :
         Lost(w) => /\ \E x \in DOMAIN writers : writers[x].overlapped
                    /\ \E v \in DOMAIN writers : v # w /\ writers[v].pc = "done" /\ Kept(v)

C30_Witness ==
  /\ writers # NoWriters
  /\ \A w \in DOMAIN writers : writers[w].pc = "done"
  /\ Lost(1) /\ Kept(2)
  /\ writers[1].overlapped /\ writers[2].overlapped

\* C31 (as claimed): a session stored by an instance whose base url is written with
\* a trailing slash is found by an instance whose base url is the same url without
\* it, and the other way round; a session stored for one user is never found for
\* another user of the same base url.
RStrip(path) == IF path = "/" THEN "" ELSE IF path = "/creatio/" THEN "/creatio" ELSE path
SameUrl(u, v) == u.origin = v.origin /\ RStrip(u.path) = RStrip(v.path)

C31_KeysNormalized ==
  (Len(writers) = 2 /\ writers[2].pc = "done") =>
    /\ (SameUrl(writers[1].base_url, writers[2].base_url)
        /\ writers[1].username = writers[2].username) => writers[2].found
    /\ writers[1].username # writers[2].username => ~writers[2].found

\* C32 (as claimed): when make_request is about to send its retry, the
\* authentication headers of the request are those of the credential state after
\* the re-authentication: BPMCSRF is the BPMCSRF cookie of the jar, absent when the
\* jar has none, and Authorization is the bearer token in force, absent when there
\* is none.
C32_RetryHeadersFresh ==
  \A i \in ReqFrames :
    stack[i].pc = "retry" =>
      /\ stack[i].headers["BPMCSRF"] = (IF oauth_token = Empty THEN jar["BPMCSRF"] ELSE Nil)
      /\ stack[i].headers["Authorization"] =
           (IF oauth_token = Empty THEN Nil ELSE "Bearer " \o oauth_token)

\* C33 (as claimed): one top-level authenticate call sends at most one POST to the
\* login endpoint, also when the probe of load_session is answered with an error
\* status and the recovery of make_request runs inside that probe.
LoginPosts ==
  {j \in 1..Len(sent) : sent[j].endpoint = LoginEndpoint /\ sent[j].method = "POST"}

C33_AtMostOneLogin ==
  op.name = "authenticate" => Cardinality(LoginPosts) <= 1

\* C34: over any sequence of authenticate calls the in-memory credentials of at most
\* one mode are populated, and once one mode's credentials are stored, a call that
\* passes a complete pair of the other mode is refused with the conflict error.
InMemory == Credentials(username, password, client_id, client_secret)
SessionStored(m) == m.username # Empty \/ m.password # Empty
OAuthStored(m) == m.client_id # Empty \/ m.client_secret # Empty
SessionPair(a) == a.username # Empty /\ a.password # Empty
OAuthPair(a) == a.client_id # Empty /\ a.client_secret # Empty

C34_OneModeInMemory ==
  /\ ~(SessionStored(InMemory) /\ OAuthStored(InMemory))
  /\ (lastAuth.how # "none" /\ SessionStored(lastAuth.memory) /\ OAuthPair(lastAuth.args))
       => lastAuth.how = "conflict"
  /\ (lastAuth.how # "none" /\ OAuthStored(lastAuth.memory) /\ SessionPair(lastAuth.args))
       => lastAuth.how = "conflict"

C34_Witness_SessionThenOAuth ==
  /\ SessionPair(lastAuth.memory) /\ OAuthPair(lastAuth.args)
  /\ lastAuth.how = "conflict"
  /\ ret.kind = "exc" /\ ret.message = ConflictMessage
  /\ SessionPair(InMemory) /\ ~OAuthStored(InMemory)

\* C35 (as claimed): after an instance authenticated as one user authenticates as
\* another user from the cache, the jar holds no cookie of the previous user, and no
\* such cookie is persisted in the entry of the new user.
NoLogin == \A j \in 1..Len(sent) : sent[j].endpoint # LoginEndpoint
CookiesOf(name) == store[BaseUrl][name].payload
Foreign(cookies, name) ==
  \E p \in {"alice", "bob"} \ {name} : \E k \in Keys :
    cookies[k] # Nil /\ cookies[k] = CookiesOf(p)[k]

C35_NoCookieOfPreviousUser ==
  (op.name = "authenticate" /\ Depth = 0 /\ ret.kind = "value" /\ NoLogin
     /\ username \in {"alice", "bob"})
    => /\ ~Foreign(jar, username)
       /\ ~Foreign(CookiesOf(username), username)

\* C36: an authenticate call that ends with the conflicting-credentials, the
\* missing-credentials or the invalid-method error changes neither the credentials,
\* the token, the jar and the call counter of the instance nor the persisted store:
\* neither the step that enters the call nor the step that raises touches them.
DispatchErrors == {ConflictMessage, MissingMessage, InvalidMethodMessage}
EntersAuthenticate ==
  /\ Len(stack') = Len(stack) + 1
  /\ stack'[Len(stack')].kind = "auth" /\ stack'[Len(stack')].pc = "enter"
RaisesDispatchError ==
  /\ AtTop("auth", "enter")
  /\ ret'.kind = "exc" /\ ret'.type = "ValueError" /\ ret'.message \in DispatchErrors
InstanceState == <<username, password, client_id, client_secret, oauth_token, jar,
                   api_calls, store, disk>>

C36_FailedDispatchChangesNothing ==
  [][(EntersAuthenticate \/ RaisesDispatchError) => UNCHANGED InstanceState]_vars

C36_Witness ==
  /\ op.name = "authenticate" /\ Depth = 0
  /\ ret.kind = "exc" /\ ret.message \in DispatchErrors
  /\ lastAuth.how = "conflict"
  /\ InMemory = lastAuth.memory /\ SessionPair(InMemory)
  /\ Truthy(jar) /\ api_calls = op.entry_calls /\ api_calls > 0
  /\ store[BaseUrl][username].present

\* C37 (as claimed): when the upload request of upload_file raises a
\* RequestException after the record was created, delete_collection_data is called
\* for the record before the call ends and the caller sees the exception of the
\* upload; when the upload request returns, no delete is issued.
UploadFailed == query.pc = "raised" /\ query.caught # NoReturn

C37_UploadCleansUp ==
  /\ UploadFailed => /\ query.deletes = 1
                     /\ query.raised_by = "upload"
                     /\ ret = query.caught
  /\ query.pc = "returned" => query.deletes = 0

\* C38 (as claimed): in the legacy plaintext implementation, _store_session_cookie
\* for (url, x) leaves the stored cookies of every other username under the same
\* url, and every entry under another url, as they were.
C38_LegacyStorePreservesOthers ==
  [][(query.pc = "legacy" /\ query'.pc = "stored") =>
       \A u \in Urls, p \in Principals :
         (u # BaseUrl \/ p # query'.username) => store'[u][p] = store[u][p]]_vars

====
